---- MODULE Spec2Model ----
(***************************************************************************)
(* nseva (FuData pipeline): the trading calendar, the expiry chain and the *)
(* window boundaries derived from the on-disk store.                       *)
(*                                                                         *)
(* The store is the directory tree under the data root: raw/fo_udiff       *)
(* (downloaded archives) and silver/fo_bhavcopy_day (one directory per     *)
(* trade date, holding data.parquet).  _data_root resolves the storage     *)
(* root it is given to that tree; the model has one store.                 *)
(*                                                                         *)
(* A date is its proleptic Gregorian ordinal (datetime.date.toordinal), so *)
(* timedelta(days=1) is +1 and date comparison is integer comparison.      *)
(***************************************************************************)
EXTENDS Integers, Sequences, FiniteSets

VARIABLES
    raw,      \* dates for which raw/fo_udiff/YYYY/MM/YYYY-MM-DD.zip exists
    silver,   \* silver/fo_bhavcopy_day/date=<d>: [dir, parquet, rows]
    mwpl,     \* silver/mwpl_combined_day/date=<d>/data.parquet: its rows
    gold,     \* gold/futures_day/date=<d>/<symbol>.parquet: its rows
    summary,  \* gold/futures_month_summary/<symbol>_<expiry>.parquet: its row
    ret,      \* what the last operation returned or raised
    log,      \* LOGGER.warning records emitted by the last operation
    run,      \* the run command: where its loop over the days stands
    net       \* the fetcher: the cached file, its manifest, the last call

vars == <<raw, silver, mwpl, gold, summary, ret, log, run, net>>

----------------------------------------------------------------------------
(* Calendar arithmetic of datetime.date and dateutil.relativedelta.        *)

IsLeap(y) == (y % 4 = 0) /\ ((y % 100 # 0) \/ (y % 400 = 0))

\* _DAYS_IN_MONTH and _DAYS_BEFORE_MONTH, with the leap day.
DaysInMonthL(m, leap) ==
    IF m = 2 THEN (IF leap THEN 29 ELSE 28)
    ELSE IF m \in {4, 6, 9, 11} THEN 30 ELSE 31

DaysBeforeMonthL(m, leap) ==
    <<0, 31, 59, 90, 120, 151, 181, 212, 243, 273, 304, 334>>[m]
        + (IF m > 2 /\ leap THEN 1 ELSE 0)

DaysInMonth(y, m) == DaysInMonthL(m, IsLeap(y))

DaysBeforeYear(y) ==
    ((y - 1) * 365) + ((y - 1) \div 4) - ((y - 1) \div 100) + ((y - 1) \div 400)

\* date(y, m, d).toordinal()
Ymd2Ord(y, m, d) == DaysBeforeYear(y) + DaysBeforeMonthL(m, IsLeap(y)) + d

\* date.fromordinal(n) as <<year, month, day>>: the 400-, 100-, 4- and
\* 1-year cycles are taken off in turn, then the month is estimated from the
\* day of the year and corrected.
YmdMonth(year, leap, r, m0, p0) ==
    IF p0 > r
    THEN <<year, m0 - 1, r - (p0 - DaysInMonthL(m0 - 1, leap)) + 1>>
    ELSE <<year, m0, r - p0 + 1>>

YmdInYear(year, leap, r, m0) ==
    YmdMonth(year, leap, r, m0, DaysBeforeMonthL(m0, leap))

Ord2Ymd1(year, n100, n4, n1, r) ==
    IF n1 = 4 \/ n100 = 4 THEN <<year - 1, 12, 31>>
    ELSE YmdInYear(year, n1 = 3 /\ (n4 # 24 \/ n100 = 3), r, (r + 50) \div 32)

Ord2Ymd4(n400, n100, n4, r) ==
    Ord2Ymd1(n400 * 400 + 1 + n100 * 100 + n4 * 4 + (r \div 365),
             n100, n4, r \div 365, r % 365)

Ord2Ymd100(n400, n100, r) == Ord2Ymd4(n400, n100, r \div 1461, r % 1461)

Ord2Ymd400(n400, r) == Ord2Ymd100(n400, r \div 36524, r % 36524)

Ord2Ymd(n) == Ord2Ymd400((n - 1) \div 146097, (n - 1) % 146097)

\* min(calendar.monthrange(year, month)[1], day)
ClampDay(y, m, d) ==
    Ymd2Ord(y, m, IF d < DaysInMonth(y, m) THEN d ELSE DaysInMonth(y, m))

\* day - relativedelta(months=months_back), 0 <= months_back <= 11: the
\* month is moved back, borrowing a year when it falls below 1, and the day
\* of the month is clamped to the length of the target month.
MonthsBackYmd(ymd, months_back) ==
    IF ymd[2] - months_back < 1
    THEN ClampDay(ymd[1] - 1, ymd[2] - months_back + 12, ymd[3])
    ELSE ClampDay(ymd[1], ymd[2] - months_back, ymd[3])

MonthsBack(day, months_back) == MonthsBackYmd(Ord2Ymd(day), months_back)

----------------------------------------------------------------------------
(* Bounds of the model: the dates, symbols and frames the operations are   *)
(* applied to.                                                             *)

Symbols == {"ABC", "XYZ"}

\* Contract expiries carried by rows (monthly cycle, one a year later).
E1 == Ymd2Ord(2024, 1, 25)
E2 == Ymd2Ord(2024, 2, 29)
E3 == Ymd2Ord(2024, 3, 28)
E4 == Ymd2Ord(2024, 5, 30)
E5 == Ymd2Ord(2025, 1, 30)
Expiries == {E1, E2, E3, E4, E5}

\* Dates of the store: silver partitions are written for PartitionDates,
\* raw archives are cached for RawDates.  T4 is more than a year after T0.
T0 == Ymd2Ord(2023, 11, 1)
T1 == Ymd2Ord(2024, 1, 26)
T2 == Ymd2Ord(2024, 3, 1)
T3 == Ymd2Ord(2024, 4, 1)
T4 == Ymd2Ord(2025, 1, 10)
PartitionDates == {T0, T2, T4}
RawDates == {T1, T2, T3}

\* A silver FUTSTK row: the columns the services and the gold builders read.
\* Its trade_date is the date of the partition it is written under.
FoRow(s, e, oi, lot) ==
    [symbol |-> s, expiry_date |-> e,
     open_interest_contracts |-> oi, lot_size_shares |-> lot]

Row(s, e) == FoRow(s, e, 1, 10)

\* Dates of the gold builds: the first trading days of March and April 2024
\* and the expiry day of the May contract.
GoldDates == {T2, T3, E4}

\* Frames handed to write_partition: the empty frame, single rows, and a
\* frame listing several contract months of one symbol beside another symbol.
Frames ==
    {{},
     {Row("ABC", E1)}, {Row("ABC", E4)}, {Row("ABC", E5)},
     {Row("ABC", E1), Row("ABC", E2), Row("ABC", E3), Row("ABC", E4),
      Row("XYZ", E2)}}

\* At most this many raw archives are cached in a run of the model.
MaxRaw == 1

----------------------------------------------------------------------------
(* The store.                                                              *)

NoPartition == [dir |-> FALSE, parquet |-> FALSE, rows |-> {}]

\* The partition directory of `day` (absent for every other date).
SilverPart(day) == IF day \in DOMAIN silver THEN silver[day] ELSE NoPartition

\* partition.iterdir(): the files of the partition directory.
DirEntries(day) == IF SilverPart(day).parquet THEN {"data.parquet"} ELSE {}

NoRet == [op |-> "none", symbol |-> "", day |-> 0, status |-> "ok",
          flag |-> FALSE, date |-> 0, dates |-> <<>>,
          w1 |-> 0, w3 |-> 0, e0 |-> 0,
          cfg |-> "", rows |-> {}]

\* A nullable column (pd.NA, NaN, NaT) holds no value or one value.
Null == {}
Some(v) == {v}

\* No file is cached and the fetcher has not been called.
NoNet == [op |-> "none", dest |-> Null, manifest |-> Null,
          had_dest |-> Null, had_manifest |-> Null, expected |-> Null,
          script |-> <<>>, attempts |-> 0, backoff |-> 0,
          calls |-> 0, sleeps |-> <<>>, pauses |-> 0,
          status |-> "ok", value |-> ""]

\* No run command is in progress.
NoRun == [pc |-> "idle", day |-> 0, last |-> 0, todo |-> {}, error |-> "",
          fresh |-> FALSE, before |-> <<>>]

Init ==
    /\ run = NoRun
    /\ net = NoNet
    /\ raw = {}
    /\ silver = [d \in PartitionDates \cup GoldDates |-> NoPartition]
    /\ mwpl = <<>>
    /\ gold = <<>>
    /\ summary = <<>>
    /\ ret = NoRet
    /\ log = <<>>

\* silver.writer.write_partition("fo_bhavcopy_day", date, frame): mkdir of the
\* partition directory, then frame.to_parquet(dest) replacing the file.
write_partition(date, frame) ==
    /\ silver' = [silver EXCEPT ![date] =
                     [dir |-> TRUE, parquet |-> TRUE, rows |-> frame]]
    /\ ret' = [NoRet EXCEPT !.op = "write_partition"]
    /\ log' = <<>>
    /\ UNCHANGED <<raw, mwpl, gold, summary, run, net>>

\* fetch_file._download: the response body is written to a temporary file
\* that replaces dest, the raw archive of `date`.
download(date) ==
    /\ date \in raw \/ Cardinality(raw) < MaxRaw
    /\ raw' = raw \cup {date}
    /\ ret' = [NoRet EXCEPT !.op = "download"]
    /\ log' = <<>>
    /\ UNCHANGED <<silver, mwpl, gold, summary, run, net>>

----------------------------------------------------------------------------
(* services/calendar.py                                                    *)

\* The forward scan of next_trading_day_after is bounded by range(366).
ScanLimit == 366

\* Mutant: only the raw archive is looked at.
is_trading_day_raw_only(day) == day \in raw

is_trading_day(day) ==
    \/ day \in raw
    \/ SilverPart(day).dir /\ DirEntries(day) # {}

Returned(d) == [status |-> "ok", date |-> d]
Raised(why) == [status |-> why, date |-> 0]

\* The loop body, run for `n` consecutive iterations from `current`.
RECURSIVE ScanDays(_, _)
ScanDays(current, n) ==
    IF n = 0 THEN Raised("CalendarExhausted")
    ELSE IF is_trading_day(current + 1) THEN Returned(current + 1)
    ELSE ScanDays(current + 1, n - 1)

\* The loop with `left` iterations to go, evaluated a month of iterations
\* at a time (the evaluation stack stays shallow; the days are visited in
\* the loop's order and the first hit ends it).
RECURSIVE ScanForward(_, _)
ScanNext(current, left, n, r) ==
    IF r.status = "ok" THEN r ELSE ScanForward(current + n, left - n)

ScanForward(current, left) ==
    IF left = 0 THEN Raised("CalendarExhausted")
    ELSE ScanNext(current, left, IF left < 32 THEN left ELSE 32,
                  ScanDays(current, IF left < 32 THEN left ELSE 32))

\* Mutant: the scan stops a day early.
next_trading_day_after_short(day) == ScanForward(day, ScanLimit - 1)

next_trading_day_after(day) == ScanForward(day, ScanLimit)

----------------------------------------------------------------------------
(* services/expiry_service.py                                              *)

Min(S) == CHOOSE x \in S : \A y \in S : x <= y

\* tuple(sorted(expiries)): the smallest remaining element first.
RECURSIVE Sorted(_)
SortedFrom(S, m) == <<m>> \o Sorted(S \ {m})
Sorted(S) == IF S = {} THEN <<>> ELSE SortedFrom(S, Min(S))

\* Mutant: the rows are not filtered by symbol.
MatchingRowsAny(rows, symbol) == rows

\* frame[frame["symbol"] == symbol]
MatchingRows(rows, symbol) == {r \in rows : r.symbol = symbol}

\* The partition directories that hold data.parquet.
ParquetPartitions == {p \in DOMAIN silver : silver[p].dir /\ silver[p].parquet}

\* The expiry_date values of the rows of `symbol`, over every partition.
ObservedExpiries(symbol) ==
    UNION {{r.expiry_date : r \in MatchingRows(silver[p].rows, symbol)} :
              p \in ParquetPartitions}

derive_expiries(symbol) == Sorted(ObservedExpiries(symbol))

\* list.index(expiry), counted from 0.
IndexOf(seq, x) == (CHOOSE i \in 1..Len(seq) : seq[i] = x) - 1

\* seq[i] with i counted from 0.
At(seq, i) == seq[i + 1]

FallbackWarning(idx_offset, fallback_expiry) ==
    [kind |-> "fallback", offset |-> idx_offset, anchor |-> fallback_expiry]
OverlapWarning == [kind |-> "overlap_order", offset |-> 0, anchor |-> 0]

\* An anchor taken from the chain, or synthesized with its warning.
ChainAnchor(d) == [date |-> d, log |-> <<>>]
FallbackAnchor(idx_offset, fallback_expiry) ==
    [date |-> fallback_expiry,
     log |-> <<FallbackWarning(idx_offset, fallback_expiry)>>]

\* Mutant: a month is taken to be 30 days.
fallback_30_days(expiry, idx_offset, months_back) ==
    FallbackAnchor(idx_offset, expiry - 30 * months_back)

\* windows_for.fallback(idx_offset, months_back)
fallback(expiry, idx_offset, months_back) ==
    FallbackAnchor(idx_offset, MonthsBack(expiry, months_back))

WindowsRaised(why, warnings) ==
    [status |-> why, w1 |-> 0, w3 |-> 0, e0 |-> 0, log |-> warnings]

\* if w3_start > w1_start: pass, else: LOGGER.warning(...)
OverlapCheck(w1_start, w3_start) ==
    IF w3_start > w1_start THEN <<>> ELSE <<OverlapWarning>>

\* return (w1_start, w3_start, expiry), after the ordering check
WindowsResult(expiry, warnings, w1_start, w3) ==
    IF w3.status # "ok" THEN WindowsRaised(w3.status, warnings)
    ELSE [status |-> "ok", w1 |-> w1_start, w3 |-> w3.date, e0 |-> expiry,
          log |-> warnings \o OverlapCheck(w1_start, w3.date)]

\* w1_start is computed first; w3_start only if that did not raise.
WindowsStarts(expiry, prev3, warnings, w1) ==
    IF w1.status # "ok" THEN WindowsRaised(w1.status, warnings)
    ELSE WindowsResult(expiry, warnings, w1.date,
                       next_trading_day_after(prev3))

WindowsFrom(expiry, prev1, prev3) ==
    WindowsStarts(expiry, prev3.date, prev1.log \o prev3.log,
                  next_trading_day_after(prev1.date))

\* Mutant: the overlap anchor needs one more expiry than the code asks for.
WindowsAtStrict(expiry, expiries, idx) ==
    WindowsFrom(expiry,
        IF idx - 1 >= 0 THEN ChainAnchor(At(expiries, idx - 1))
        ELSE fallback(expiry, 1, 1),
        IF idx - 3 > 0 THEN ChainAnchor(At(expiries, idx - 3))
        ELSE fallback(expiry, 3, 3))

\* Mutant: the overlap anchor is taken two places back instead of three.
WindowsAtTwoBack(expiry, expiries, idx) ==
    WindowsFrom(expiry,
        IF idx - 1 >= 0 THEN ChainAnchor(At(expiries, idx - 1))
        ELSE fallback(expiry, 1, 1),
        IF idx - 3 >= 0 THEN ChainAnchor(At(expiries, idx - 2))
        ELSE fallback(expiry, 3, 3))

\* prev1 and prev3: the chain entries one and three places before idx, or
\* the fallback when there is none.
WindowsAt(expiry, expiries, idx) ==
    WindowsFrom(expiry,
        IF idx - 1 >= 0 THEN ChainAnchor(At(expiries, idx - 1))
        ELSE fallback(expiry, 1, 1),
        IF idx - 3 >= 0 THEN ChainAnchor(At(expiries, idx - 3))
        ELSE fallback(expiry, 3, 3))

\* Mutant: the expiry is located by bisection and never reported missing
\* from a chain that has entries.
WindowsInBisect(symbol, expiry, expiries) ==
    IF Len(expiries) = 0
    THEN WindowsRaised("ExpiryNotObserved", <<>>)
    ELSE WindowsAt(expiry, expiries,
             Cardinality({i \in 1..Len(expiries) : expiries[i] < expiry}))

WindowsIn(symbol, expiry, expiries) ==
    IF \A i \in 1..Len(expiries) : expiries[i] # expiry
    THEN WindowsRaised("ExpiryNotObserved", <<>>)
    ELSE WindowsAt(expiry, expiries, IndexOf(expiries, expiry))

windows_for(symbol, expiry) ==
    WindowsIn(symbol, expiry, derive_expiries(symbol))

\* Mutant: the window tested is the primary one.
YieldPrimary(yielded, expiry, trade_date, w) ==
    IF w.w1 <= trade_date /\ trade_date <= w.e0
    THEN Append(yielded, expiry) ELSE yielded

\* if w3_start <= trade_date <= e0: yield expiry
Yield(yielded, expiry, trade_date, w) ==
    IF w.w3 <= trade_date /\ trade_date <= w.e0
    THEN Append(yielded, expiry) ELSE yielded

\* The generator, consumed to its end: the expiries yielded so far, the
\* warnings logged so far, and the error that ended it, if any.
RECURSIVE ImpactedFrom(_, _, _, _, _, _)
ImpactedStep(symbol, trade_date, expiries, i, yielded, warnings, w) ==
    IF w.status # "ok"
    THEN [status |-> w.status, dates |-> yielded, log |-> warnings \o w.log]
    ELSE ImpactedFrom(symbol, trade_date, expiries, i + 1,
                      Yield(yielded, expiries[i], trade_date, w),
                      warnings \o w.log)

ImpactedFrom(symbol, trade_date, expiries, i, yielded, warnings) ==
    IF i > Len(expiries)
    THEN [status |-> "ok", dates |-> yielded, log |-> warnings]
    ELSE ImpactedStep(symbol, trade_date, expiries, i, yielded, warnings,
                      windows_for(symbol, expiries[i]))

impacted_expiries_for(symbol, trade_date) ==
    ImpactedFrom(symbol, trade_date, derive_expiries(symbol), 1, <<>>, <<>>)

----------------------------------------------------------------------------
(* The operations as steps: each call leaves its outcome in ret and the    *)
(* warnings it logged in log; none of them writes the store.               *)

\* Dates the calendar is asked about.
QueryDays == {T0, T1, T2, T4, T4 - 366, T4 - 367, E1, E3}

\* Trade dates impacted_expiries_for is asked about.
ImpactDays == {T1, T3, T4}

\* A query reads the store and writes nothing, so its outcome depends on the
\* store alone: the model asks each query of a store once, right after the
\* operation that wrote the store.
StoreOps == {"none", "write_partition", "download"}

call_is_trading_day(day) ==
    /\ ret.op \in StoreOps
    /\ ret' = [NoRet EXCEPT !.op = "is_trading_day", !.day = day,
                            !.flag = is_trading_day(day)]
    /\ log' = <<>>
    /\ UNCHANGED <<raw, silver, mwpl, gold, summary, run, net>>

RetNextTradingDay(day, r) ==
    [NoRet EXCEPT !.op = "next_trading_day_after", !.day = day,
                  !.status = r.status, !.date = r.date]

call_next_trading_day_after(day) ==
    /\ ret.op \in StoreOps
    /\ ret' = RetNextTradingDay(day, next_trading_day_after(day))
    /\ log' = <<>>
    /\ UNCHANGED <<raw, silver, mwpl, gold, summary, run, net>>

call_derive_expiries(symbol) ==
    /\ ret.op \in StoreOps
    /\ ret' = [NoRet EXCEPT !.op = "derive_expiries", !.symbol = symbol,
                            !.dates = derive_expiries(symbol)]
    /\ log' = <<>>
    /\ UNCHANGED <<raw, silver, mwpl, gold, summary, run, net>>

RetWindows(symbol, expiry, r) ==
    [NoRet EXCEPT !.op = "windows_for", !.symbol = symbol, !.day = expiry,
                  !.status = r.status, !.w1 = r.w1, !.w3 = r.w3, !.e0 = r.e0]

Outcome(r, l) == ret' = r /\ log' = l

call_windows_for(symbol, expiry) ==
    /\ ret.op \in StoreOps
    /\ \E r \in {windows_for(symbol, expiry)} :
          Outcome(RetWindows(symbol, expiry, r), r.log)
    /\ UNCHANGED <<raw, silver, mwpl, gold, summary, run, net>>

RetImpacted(symbol, trade_date, r) ==
    [NoRet EXCEPT !.op = "impacted_expiries_for", !.symbol = symbol,
                  !.day = trade_date, !.status = r.status, !.dates = r.dates]

call_impacted_expiries_for(symbol, trade_date) ==
    /\ ret.op \in StoreOps
    /\ \E r \in {impacted_expiries_for(symbol, trade_date)} :
          Outcome(RetImpacted(symbol, trade_date, r), r.log)
    /\ UNCHANGED <<raw, silver, mwpl, gold, summary, run, net>>

Next ==
    \/ \E d \in PartitionDates, f \in Frames : write_partition(d, f)
    \/ \E d \in RawDates : download(d)
    \/ \E d \in QueryDays : call_is_trading_day(d)
    \/ \E d \in QueryDays : call_next_trading_day_after(d)
    \/ \E s \in Symbols : call_derive_expiries(s)
    \/ \E s \in Symbols, e \in Expiries : call_windows_for(s, e)
    \/ \E s \in Symbols, d \in ImpactDays : call_impacted_expiries_for(s, d)

Spec == Init /\ [][Next]_vars

----------------------------------------------------------------------------
(* gold.futures_day: the per-date builder.                                 *)

\* The value a non-null column holds.
Val(x) == CHOOSE v \in x : TRUE

\* A silver MWPL row (parse.mwpl.REQUIRED_COLUMNS).
MwplRow(d, s, m, c) ==
    [trade_date |-> d, symbol |-> s, mwpl_shares |-> m,
     combined_oi_shares |-> c]

\* silver.writer.write_partition("mwpl_combined_day", date, frame).
write_mwpl_partition(date, frame) ==
    /\ mwpl' = [d \in DOMAIN mwpl \cup {date} |->
                   IF d = date THEN frame ELSE mwpl[d]]
    /\ ret' = [NoRet EXCEPT !.op = "write_partition"]
    /\ log' = <<>>
    /\ UNCHANGED <<raw, silver, gold, summary, run, net>>

\* Mutant: oi_shares repeats the contract count.
GoldRecordOiOnly(trade_date, r, mwpl_shares, combined_oi_shares) ==
    [trade_date |-> trade_date, symbol |-> r.symbol,
     expiry_date |-> r.expiry_date,
     oi_contracts |-> r.open_interest_contracts,
     lot_size_shares |-> r.lot_size_shares,
     oi_shares |-> r.open_interest_contracts,
     mwpl_shares |-> mwpl_shares,
     combined_oi_shares |-> combined_oi_shares]

\* The row of gold.futures_day made of a FUTSTK row and the MWPL columns
\* merged onto it: oi_contracts is open_interest_contracts and
\* oi_shares = oi_contracts * lot_size_shares.
GoldRecord(trade_date, r, mwpl_shares, combined_oi_shares) ==
    [trade_date |-> trade_date, symbol |-> r.symbol,
     expiry_date |-> r.expiry_date,
     oi_contracts |-> r.open_interest_contracts,
     lot_size_shares |-> r.lot_size_shares,
     oi_shares |-> r.open_interest_contracts * r.lot_size_shares,
     mwpl_shares |-> mwpl_shares,
     combined_oi_shares |-> combined_oi_shares]

\* fo_df.merge(mwpl_df, on=["trade_date", "symbol"], how="left"): the MWPL
\* rows with the key of the FUTSTK row, whose trade_date is `trade_date`.
MergeKeyRows(trade_date, r, mwpl_df) ==
    {m \in mwpl_df : m.trade_date = trade_date /\ m.symbol = r.symbol}

\* Mutant: the MWPL columns default to zero when no row matches.
MergeLeftZero(trade_date, r, matches) ==
    IF matches = {}
    THEN {GoldRecord(trade_date, r, Some(0), Some(0))}
    ELSE {GoldRecord(trade_date, r, Some(m.mwpl_shares),
                     Some(m.combined_oi_shares)) : m \in matches}

\* The merged rows of one FUTSTK row: one per matching MWPL row, or one with
\* the MWPL columns null when none matches.
MergeLeft(trade_date, r, matches) ==
    IF matches = {}
    THEN {GoldRecord(trade_date, r, Null, Null)}
    ELSE {GoldRecord(trade_date, r, Some(m.mwpl_shares),
                     Some(m.combined_oi_shares)) : m \in matches}

\* futures_day._compute_gold(fo_df, mwpl_df)
compute_gold(trade_date, fo_df, mwpl_df) ==
    UNION {MergeLeft(trade_date, r, MergeKeyRows(trade_date, r, mwpl_df)) :
              r \in fo_df}

\* mwpl_df: the rows of `symbol` in the MWPL partition of the date, or the
\* empty frame when mwpl_path does not exist.
MwplFrame(symbol, trade_date) ==
    IF trade_date \in DOMAIN mwpl
    THEN {m \in mwpl[trade_date] : m.symbol = symbol}
    ELSE {}

DayRaised(why) == [status |-> why, rows |-> {}, persist |-> FALSE]
DayReturned(rows, persist) ==
    [status |-> "ok", rows |-> rows, persist |-> persist]

\* Mutant: a day without a row of the symbol is reported as a missing
\* partition.
DayFromMissing(symbol, trade_date, fo_df) ==
    IF fo_df = {}
    THEN DayRaised("MissingSilverPartition")
    ELSE DayReturned(compute_gold(trade_date, fo_df,
                                  MwplFrame(symbol, trade_date)), TRUE)

\* build_futures_day after fo_path exists: the empty frame is returned
\* before anything is written; otherwise the gold frame is computed and
\* written to gold_path.
DayFrom(symbol, trade_date, fo_df) ==
    IF fo_df = {}
    THEN DayReturned({}, FALSE)
    ELSE DayReturned(compute_gold(trade_date, fo_df,
                                  MwplFrame(symbol, trade_date)), TRUE)

\* Mutant: a missing partition reads as an empty frame.
futures_day_lenient(symbol, trade_date) ==
    DayFrom(symbol, trade_date,
            MatchingRows(SilverPart(trade_date).rows, symbol))

\* Mutant: an artifact that already exists is taken as built and nothing is
\* returned for it.
futures_day_cached(symbol, trade_date) ==
    IF <<trade_date, symbol>> \in DOMAIN gold
    THEN DayReturned({}, FALSE)
    ELSE IF ~SilverPart(trade_date).parquet
    THEN DayRaised("MissingSilverPartition")
    ELSE DayFrom(symbol, trade_date,
                 MatchingRows(SilverPart(trade_date).rows, symbol))

\* What build_futures_day(symbol, trade_date) returns or raises, and whether
\* it writes gold_path.
futures_day(symbol, trade_date) ==
    IF ~SilverPart(trade_date).parquet
    THEN DayRaised("MissingSilverPartition")
    ELSE DayFrom(symbol, trade_date,
                 MatchingRows(SilverPart(trade_date).rows, symbol))

\* Mutant: the gold directory is emptied before the artifact is written.
WriteGoldAlone(key, rows) == [k \in {key} |-> rows]

\* gold_df.to_parquet(gold_path): the artifact of the key holds the frame.
WriteGold(key, rows) ==
    [k \in DOMAIN gold \cup {key} |-> IF k = key THEN rows ELSE gold[k]]

RetDay(symbol, trade_date, r) ==
    [NoRet EXCEPT !.op = "build_futures_day", !.symbol = symbol,
                  !.day = trade_date, !.status = r.status, !.rows = r.rows]

DayEffect(symbol, trade_date, r) ==
    /\ gold' = IF r.persist THEN WriteGold(<<trade_date, symbol>>, r.rows)
               ELSE gold
    /\ ret' = RetDay(symbol, trade_date, r)
    /\ log' = <<>>

build_futures_day(symbol, trade_date) ==
    /\ DayEffect(symbol, trade_date, futures_day(symbol, trade_date))
    /\ UNCHANGED <<raw, silver, mwpl, summary, run, net>>

----------------------------------------------------------------------------
(* gold.futures_summary: the per-expiry builder.                           *)

\* What load_config() hands to build_futures_summary: no configuration at
\* all (load_config could not be imported), or a configuration whose
\* futures.windows.primary.summary_scope is "W1", "W3" or None
\* (config.models.WindowRuleConfig: Optional[Literal["W1", "W3"]] = None).
Configs == {"unloaded", "W1", "W3", "None"}

\* cfg.futures.windows.primary.summary_scope if cfg else "W1"
SummaryScope(cfg) == IF cfg = "unloaded" THEN "W1" ELSE cfg

\* scope_start = primary_start if summary_scope == "W1" else overlap_start
ScopeStart(summary_scope, primary_start, overlap_start) ==
    IF summary_scope = "W1" THEN primary_start ELSE overlap_start

\* Mutant: the end of the window is excluded.
load_gold_days_open(symbol, start_date, end_date) ==
    UNION {gold[k] : k \in {x \in DOMAIN gold :
                               /\ x[2] = symbol
                               /\ ~(x[1] < start_date \/ x[1] >= end_date)}}

\* futures_summary._load_gold_days(root, symbol, start_date, end_date): the
\* rows of <symbol>.parquet in the date=<d> partitions of gold/futures_day
\* with start_date <= d <= end_date.
load_gold_days(symbol, start_date, end_date) ==
    UNION {gold[k] : k \in {x \in DOMAIN gold :
                               /\ x[2] = symbol
                               /\ ~(x[1] < start_date \/ x[1] > end_date)}}

Max(S) == CHOOSE x \in S : \A y \in S : y <= x

\* floor(a / b) for b # 0.  Python divides as floats and takes the floor; the
\* quotient of two integers below 2^53 in magnitude that is not an integer
\* is at least 1/|b| away from one, more than the rounding error, so the
\* floor is that of the exact quotient.
FloorDiv(a, b) == IF b > 0 THEN a \div b ELSE (0 - a) \div (0 - b)

\* Mutant: rounding to the nearest integer.
Round90(max_permitted) == FloorDiv(9 * max_permitted + 5, 10)

\* floor(0.9 * max_permitted): the double nearest 0.9 exceeds 0.9 by less
\* than 3 parts in 10^17, so the product rounds to 9 * max_permitted / 10
\* when that is an integer and keeps its integer part otherwise.
Floor90(max_permitted) == FloorDiv(9 * max_permitted, 10)

\* gold_df.dropna(subset=["mwpl_shares", "lot_size_shares"]); the lot size
\* of a gold row is never null here.
DropNa(gold_df) == {r \in gold_df : r.mwpl_shares # Null}

\* Mutant: head(1) of the sorted rows.
EarliestRows(rows) ==
    {r \in rows : \A q \in rows : r.trade_date <= q.trade_date}

\* .sort_values("trade_date").tail(1): a row of the latest trade_date; the
\* sort leaves the order of rows of one trade_date open.
LatestRows(rows) ==
    {r \in rows : \A q \in rows : q.trade_date <= r.trade_date}

\* max_permitted = floor(mwpl_used / lot_used) if lot_used else pd.NA
MaxPermitted(mwpl_used, lot_used) ==
    IF lot_used # 0 THEN Some(FloorDiv(mwpl_used, lot_used)) ELSE Null

\* threshold_90 = floor(0.9 * max_permitted) if max_permitted is not pd.NA
Threshold90(max_permitted) ==
    IF max_permitted # Null THEN Some(Floor90(Val(max_permitted))) ELSE Null

SummaryHead(symbol, summary_scope, w, gold_df) ==
    [symbol |-> symbol, expiry_date |-> w.e0,
     primary_start_date |-> w.w1, overlap_start_date |-> w.w3,
     end_date |-> w.e0, summary_scope |-> summary_scope,
     max_oi_contracts |-> Max({r.oi_contracts : r \in gold_df})]

\* The threshold columns when latest_mwpl_row is empty.
ThresholdsAbsent ==
    [max_permitted_contracts |-> Null, threshold_90pct |-> Null,
     mwpl_shares_used |-> Null, lot_size_used |-> Null,
     as_of_trade_date |-> Null]

\* The threshold columns taken from latest_mwpl_row.
ThresholdsPermitted(row, max_permitted) ==
    [max_permitted_contracts |-> max_permitted,
     threshold_90pct |-> Threshold90(max_permitted),
     mwpl_shares_used |-> Some(Val(row.mwpl_shares)),
     lot_size_used |-> Some(row.lot_size_shares),
     as_of_trade_date |-> Some(row.trade_date)]

ThresholdsFrom(row) ==
    ThresholdsPermitted(row,
        MaxPermitted(Val(row.mwpl_shares), row.lot_size_shares))

\* The threshold columns the build may produce for the loaded rows.
Thresholds(populated) ==
    IF populated = {} THEN {ThresholdsAbsent}
    ELSE {ThresholdsFrom(row) : row \in LatestRows(populated)}

SummaryRaised(why, warnings) ==
    [status |-> why, rows |-> {}, persist |-> FALSE, log |-> warnings]
SummaryReturned(rows, persist, warnings) ==
    [status |-> "ok", rows |-> rows, persist |-> persist, log |-> warnings]

\* Mutant: a window without rows is an error.
SummariesOverStrict(symbol, summary_scope, w, gold_df) ==
    IF gold_df = {}
    THEN {SummaryRaised("EmptyWindow", w.log)}
    ELSE {SummaryReturned(
              {[f \in DOMAIN SummaryHead(symbol, summary_scope, w, gold_df)
                      \cup DOMAIN t |->
                  IF f \in DOMAIN t THEN t[f]
                  ELSE SummaryHead(symbol, summary_scope, w, gold_df)[f]]},
              TRUE, w.log) : t \in Thresholds(DropNa(gold_df))}

\* build_futures_summary once the rows of the window are loaded: the empty
\* frame is returned before anything is written; otherwise the one-row
\* summary is computed and written to dest.
SummariesOver(symbol, summary_scope, w, gold_df) ==
    IF gold_df = {}
    THEN {SummaryReturned({}, FALSE, w.log)}
    ELSE {SummaryReturned(
              {[f \in DOMAIN SummaryHead(symbol, summary_scope, w, gold_df)
                      \cup DOMAIN t |->
                  IF f \in DOMAIN t THEN t[f]
                  ELSE SummaryHead(symbol, summary_scope, w, gold_df)[f]]},
              TRUE, w.log) : t \in Thresholds(DropNa(gold_df))}

\* build_futures_summary after windows_for: its error propagates.
SummariesIn(symbol, summary_scope, w) ==
    IF w.status # "ok"
    THEN {SummaryRaised(w.status, w.log)}
    ELSE SummariesOver(symbol, summary_scope, w,
             load_gold_days(symbol,
                 ScopeStart(summary_scope, w.w1, w.w3), w.e0))

\* What build_futures_summary(symbol, expiry) may return or raise under the
\* configuration `cfg`.
futures_summary(symbol, expiry, cfg) ==
    SummariesIn(symbol, SummaryScope(cfg), windows_for(symbol, expiry))

\* summary.to_parquet(dest): the artifact of the key holds the frame.
WriteSummary(key, rows) ==
    [k \in DOMAIN summary \cup {key} |->
        IF k = key THEN rows ELSE summary[k]]

RetSummary(symbol, expiry, cfg, r) ==
    [NoRet EXCEPT !.op = "build_futures_summary", !.symbol = symbol,
                  !.day = expiry, !.cfg = cfg, !.status = r.status,
                  !.rows = r.rows]

SummaryEffect(symbol, expiry, cfg, r) ==
    /\ summary' = IF r.persist THEN WriteSummary(<<symbol, expiry>>, r.rows)
                  ELSE summary
    /\ ret' = RetSummary(symbol, expiry, cfg, r)
    /\ log' = r.log

build_futures_summary(symbol, expiry, cfg) ==
    /\ \E r \in futures_summary(symbol, expiry, cfg) :
          SummaryEffect(symbol, expiry, cfg, r)
    /\ UNCHANGED <<raw, silver, mwpl, gold, run, net>>

----------------------------------------------------------------------------
(* The gold pipeline: ingests of the days of GoldDates, with or without    *)
(* their MWPL extract, and builds of the gold artifacts.                   *)

\* The FUTSTK frames ingested for a date: the day's rows, and for T3 also
\* the frame left when the ingest is filtered to the other symbol.
DayFrames(d) ==
    IF d = T2 THEN {{FoRow("ABC", E3, 9, 3), FoRow("ABC", E4, 4, 3)}}
    ELSE IF d = T3 THEN {{FoRow("ABC", E4, 7, 0), FoRow("XYZ", E4, 5, 3)},
                         {FoRow("XYZ", E4, 5, 3)}}
    ELSE {{FoRow("ABC", E4, 12, 0 - 2)}}

\* The MWPL frames ingested for a date; one for T2 lists another symbol and
\* a row of the previous day.
MwplFrames(d) ==
    IF d = T2 THEN {{MwplRow(T2, "ABC", 100, 40)},
                    {MwplRow(T2, "XYZ", 70, 10),
                     MwplRow(T2 - 1, "ABC", 60, 10)}}
    ELSE IF d = T3 THEN {{MwplRow(T3, "ABC", 50, 20)}}
    ELSE {{MwplRow(E4, "ABC", 101, 30)}}

\* The symbol the gold artifacts are built for, and the expiries summaries
\* are asked for.
GoldSymbols == {"ABC"}
GoldExpiries == {E3, E4}

\* The store after the ingest of the first two days of GoldDates.
GoldInit ==
    /\ run = NoRun
    /\ net = NoNet
    /\ raw = {}
    /\ silver = [d \in PartitionDates \cup GoldDates |->
                    IF d \in {T2, T3}
                    THEN [dir |-> TRUE, parquet |-> TRUE,
                          rows |-> IF d = T2
                                   THEN {FoRow("ABC", E3, 9, 3),
                                         FoRow("ABC", E4, 4, 3)}
                                   ELSE {FoRow("ABC", E4, 7, 0),
                                         FoRow("XYZ", E4, 5, 3)}]
                    ELSE NoPartition]
    /\ mwpl = <<>>
    /\ gold = <<>>
    /\ summary = <<>>
    /\ ret = NoRet
    /\ log = <<>>

GoldNext ==
    \/ \E d \in GoldDates : \E f \in DayFrames(d) : write_partition(d, f)
    \/ \E d \in GoldDates : \E f \in MwplFrames(d) :
          write_mwpl_partition(d, f)
    \/ \E s \in GoldSymbols, d \in GoldDates : build_futures_day(s, d)
    \/ \E s \in GoldSymbols, e \in GoldExpiries, c \in Configs :
          build_futures_summary(s, e, c)

GoldSpec == GoldInit /\ [][GoldNext]_vars


----------------------------------------------------------------------------
(* Vocabulary of the properties, stated over the store itself.             *)

\* A raw archive or a silver partition directory exists for `d`.
Ingested(d) == d \in raw \/ (d \in DOMAIN silver /\ silver[d].dir)

\* The ingested dates among the 366 days that follow `d`.
IngestedAfter(d) == {c \in (d + 1)..(d + 366) : Ingested(c)}

\* The expiry dates carried by a row of `symbol` in some partition.
ExpiriesOf(symbol) ==
    {r.expiry_date :
        r \in {x \in UNION {silver[p].rows : p \in DOMAIN silver} :
                  x.symbol = symbol}}

\* The observed expiries of `symbol` before `e`, and the k-th of them
\* counting back from `e`.
Earlier(symbol, e) == {x \in ExpiriesOf(symbol) : x < e}
KthEarlier(symbol, e, k) ==
    CHOOSE x \in Earlier(symbol, e) :
        Cardinality({y \in Earlier(symbol, e) : y > x}) = k - 1

\* The date k calendar months before `e`: same day of the month, or the last
\* day of that month when it is shorter.
KMonthsBefore(e, k) ==
    CHOOSE a \in (e - 31 * k - 3)..e :
        /\ Ord2Ymd(a)[1] * 12 + Ord2Ymd(a)[2]
             = Ord2Ymd(e)[1] * 12 + Ord2Ymd(e)[2] - k
        /\ \/ Ord2Ymd(a)[3] = Ord2Ymd(e)[3]
           \/ /\ Ord2Ymd(a)[3] < Ord2Ymd(e)[3]
              /\ Ord2Ymd(a + 1)[2] # Ord2Ymd(a)[2]

InLog(w) == \E i \in 1..Len(log) : log[i] = w
FallbackLogged(k) == \E i \in 1..Len(log) :
    log[i].kind = "fallback" /\ log[i].offset = k

\* A windows_for call whose expiry is in the chain of its symbol.
WindowsCall ==
    ret.op = "windows_for" /\ ret.day \in ExpiriesOf(ret.symbol)
NumEarlier == Cardinality(Earlier(ret.symbol, ret.day))

\* The anchors of the call: the chain entries one and three places back, or
\* the calendar-month fallbacks.
PrimaryAnchor ==
    IF NumEarlier >= 1 THEN KthEarlier(ret.symbol, ret.day, 1)
    ELSE KMonthsBefore(ret.day, 1)
OverlapAnchor ==
    IF NumEarlier >= 3 THEN KthEarlier(ret.symbol, ret.day, 3)
    ELSE KMonthsBefore(ret.day, 3)

----------------------------------------------------------------------------
(* Properties.                                                             *)

\* C1: is_trading_day(d) is true if and only if a raw archive exists for d
\* or a silver base partition exists for d.
C1_TradingDayIffIngested ==
    ret.op = "is_trading_day" => (ret.flag <=> Ingested(ret.day))

\* A date with a silver partition and no raw archive is a trading day.
C1_Witness ==
    /\ ret.op = "is_trading_day" /\ ret.flag
    /\ ret.day \notin raw
    /\ ret.day \in DOMAIN silver /\ silver[ret.day].dir

\* C2: next_trading_day_after(d) returns the earliest ingested date among
\* d+1 .. d+366, and raises CalendarExhausted exactly when there is none.
C2_NextTradingDay ==
    ret.op = "next_trading_day_after" =>
        IF IngestedAfter(ret.day) = {}
        THEN ret.status = "CalendarExhausted"
        ELSE /\ ret.status = "ok"
             /\ ret.date = Min(IngestedAfter(ret.day))
             /\ ret.date > ret.day
             /\ Ingested(ret.date)

\* The only trading day is the 366th day after d, and it is returned.
C2_Witness ==
    /\ ret.op = "next_trading_day_after" /\ ret.status = "ok"
    /\ ret.date = ret.day + 366

\* C3: derive_expiries(symbol) is strictly ascending and its elements are
\* exactly the expiry dates of the rows of that symbol in the partitions.
C3_ChainSortedExact ==
    ret.op = "derive_expiries" =>
        /\ \A i \in 1..(Len(ret.dates) - 1) : ret.dates[i] < ret.dates[i + 1]
        /\ {ret.dates[i] : i \in 1..Len(ret.dates)} = ExpiriesOf(ret.symbol)

\* A chain of several expiries gathered from more than one partition, beside
\* a row of another symbol whose expiry is not in the chain.
C3_Witness ==
    /\ ret.op = "derive_expiries" /\ Len(ret.dates) >= 4
    /\ \E p \in DOMAIN silver, q \in DOMAIN silver :
          /\ p > q
          /\ \E x \in silver[p].rows, y \in silver[q].rows :
                /\ x.symbol = ret.symbol /\ y.symbol = ret.symbol
                /\ x.expiry_date < y.expiry_date
    /\ \E s \in Symbols : s # ret.symbol /\ ExpiriesOf(s) # {}

\* C4: with the anchors in the chain, a returned boundary has primary_start =
\* first trading day after chain[idx-1] (idx >= 1), overlap_start = first
\* trading day after chain[idx-3] (idx >= 3), and end = the target expiry.
C4_WindowsFromChain ==
    (WindowsCall /\ ret.status = "ok") =>
        /\ ret.e0 = ret.day
        /\ NumEarlier >= 1 =>
             ret.w1 = Min(IngestedAfter(KthEarlier(ret.symbol, ret.day, 1)))
        /\ NumEarlier >= 3 =>
             ret.w3 = Min(IngestedAfter(KthEarlier(ret.symbol, ret.day, 3)))

\* Both anchors come from the chain and give different starts.
C4_Witness ==
    /\ WindowsCall /\ ret.status = "ok"
    /\ NumEarlier >= 3 /\ ret.w3 < ret.w1
    /\ IngestedAfter(KthEarlier(ret.symbol, ret.day, 2)) # {}
    /\ Min(IngestedAfter(KthEarlier(ret.symbol, ret.day, 2))) # ret.w3

\* C5: windows_for raises ExpiryNotObserved exactly when the expiry is not
\* in the derived chain of the symbol.
C5_ExpiryNotObserved ==
    ret.op = "windows_for" =>
        (ret.status = "ExpiryNotObserved"
            <=> ret.day \notin ExpiriesOf(ret.symbol))

\* The expiry is not observed although the symbol has a chain, some of it
\* before and some of it after the expiry asked for.
C5_Witness ==
    /\ ret.op = "windows_for" /\ ret.status = "ExpiryNotObserved"
    /\ \E x \in ExpiriesOf(ret.symbol), y \in ExpiriesOf(ret.symbol) :
          x < ret.day /\ ret.day < y

\* C6 (as claimed): with fewer than one (three) earlier expiries the primary
\* (overlap) anchor is the expiry minus one (three) calendar months, each
\* synthesized anchor is logged, and the call returns a boundary.
C6_FallbackAlwaysReturns ==
    (WindowsCall /\ NumEarlier < 3) =>
        /\ NumEarlier < 1 =>
             InLog(FallbackWarning(1, KMonthsBefore(ret.day, 1)))
        /\ InLog(FallbackWarning(3, KMonthsBefore(ret.day, 3)))
        /\ ret.status = "ok"
        /\ ret.w1 = Min(IngestedAfter(PrimaryAnchor))
        /\ ret.w3 = Min(IngestedAfter(OverlapAnchor))

\* C6 (amended): the synthesized anchors are the expiry minus one and three
\* calendar months and each is logged; the call returns the boundary built
\* on the anchors when a trading day follows each of them within 366 days,
\* and raises CalendarExhausted otherwise.
C6_FallbackAnchors ==
    (WindowsCall /\ NumEarlier < 3) =>
        /\ NumEarlier < 1 =>
             InLog(FallbackWarning(1, KMonthsBefore(ret.day, 1)))
        /\ InLog(FallbackWarning(3, KMonthsBefore(ret.day, 3)))
        /\ IF IngestedAfter(PrimaryAnchor) # {}
              /\ IngestedAfter(OverlapAnchor) # {}
           THEN /\ ret.status = "ok"
                /\ ret.w1 = Min(IngestedAfter(PrimaryAnchor))
                /\ ret.w3 = Min(IngestedAfter(OverlapAnchor))
                /\ ret.e0 = ret.day
           ELSE ret.status = "CalendarExhausted"

\* Both anchors are synthesized, the overlap one clamped to the end of a
\* shorter month, and the boundary is returned.
C6_Witness ==
    /\ WindowsCall /\ NumEarlier = 0 /\ ret.status = "ok"
    /\ Len(log) >= 2
    /\ Ord2Ymd(KMonthsBefore(ret.day, 3))[3] < Ord2Ymd(ret.day)[3]
    /\ ret.w3 = KMonthsBefore(ret.day, 3) + 1
    /\ ret.w1 > ret.w3

\* C7 (as claimed): in a chain of length at least 4 no call takes the
\* fallback path; with fewer earlier expiries than an anchor needs, the
\* fallback is logged.
C7_NoFallbackInLongChain ==
    WindowsCall =>
        /\ Cardinality(ExpiriesOf(ret.symbol)) >= 4 =>
             ~FallbackLogged(1) /\ ~FallbackLogged(3)
        /\ NumEarlier < 1 => FallbackLogged(1)
        /\ NumEarlier < 3 => FallbackLogged(3)

\* C7 (amended): the primary fallback is logged exactly when no expiry
\* precedes the target, the overlap fallback exactly when fewer than three
\* do; an expiry at position 3 or later of its chain takes no fallback.
C7_FallbackIffShortHistory ==
    WindowsCall =>
        /\ FallbackLogged(1) <=> NumEarlier < 1
        /\ FallbackLogged(3) <=> NumEarlier < 3
        /\ \A i \in 1..Len(log) :
              log[i].kind = "fallback" => log[i].offset \in {1, 3}

\* The fourth expiry of a chain: both anchors from the chain, no fallback.
C7_Witness ==
    /\ WindowsCall /\ ret.status = "ok"
    /\ NumEarlier = 3
    /\ ~FallbackLogged(1) /\ ~FallbackLogged(3)

\* C8 (as claimed): the overlap-ordering warning is logged exactly when the
\* returned overlap_start is not strictly before primary_start.
C8_OverlapWarningIffNotBefore ==
    (WindowsCall /\ ret.status = "ok") =>
        (InLog(OverlapWarning) <=> ret.w3 >= ret.w1)

\* C9 (as claimed): a returned boundary satisfies overlap_start <=
\* primary_start <= end, or the ordering warning was logged.
C9_OrderedOrWarned ==
    (WindowsCall /\ ret.status = "ok") =>
        \/ ret.w3 <= ret.w1 /\ ret.w1 <= ret.e0
        \/ InLog(OverlapWarning)

\* The expiries of the chain whose window, as windows_for gives it,
\* contains `d`.
Containing(symbol, d, among) ==
    {e \in among :
        /\ windows_for(symbol, e).status = "ok"
        /\ windows_for(symbol, e).w3 <= d
        /\ d <= e}

\* The expiries of the chain for which windows_for raises.
Failing(symbol) ==
    {e \in ExpiriesOf(symbol) : windows_for(symbol, e).status # "ok"}

\* C10 (as claimed): impacted_expiries_for yields exactly the expiries of the
\* chain whose [overlap_start, expiry] window contains the date.
C10_ImpactedExactlyContaining ==
    ret.op = "impacted_expiries_for" =>
        {ret.dates[i] : i \in 1..Len(ret.dates)}
            = Containing(ret.symbol, ret.day, ExpiriesOf(ret.symbol))

\* C10 (amended): when windows_for succeeds for every expiry of the chain,
\* the expiries yielded are exactly those whose window contains the date, in
\* chain order; when it raises for some expiry, the call raises that error
\* at the first such expiry, having yielded those among the earlier ones.
C10_ImpactedUntilFirstFailure ==
    ret.op = "impacted_expiries_for" =>
        /\ \A i \in 1..(Len(ret.dates) - 1) : ret.dates[i] < ret.dates[i + 1]
        /\ IF Failing(ret.symbol) = {}
           THEN /\ ret.status = "ok"
                /\ {ret.dates[i] : i \in 1..Len(ret.dates)}
                     = Containing(ret.symbol, ret.day, ExpiriesOf(ret.symbol))
           ELSE /\ ret.status
                     = windows_for(ret.symbol, Min(Failing(ret.symbol))).status
                /\ {ret.dates[i] : i \in 1..Len(ret.dates)}
                     = Containing(ret.symbol, ret.day,
                           {e \in ExpiriesOf(ret.symbol) :
                               e < Min(Failing(ret.symbol))})

\* A date inside the overlap window and before the primary start of an
\* expiry that is yielded, while another expiry of the chain is not.
C10_Witness ==
    /\ ret.op = "impacted_expiries_for" /\ ret.status = "ok"
    /\ Len(ret.dates) >= 1
    /\ Len(ret.dates) < Cardinality(ExpiriesOf(ret.symbol))
    /\ \E i \in 1..Len(ret.dates) :
          windows_for(ret.symbol, ret.dates[i]).w1 > ret.day

----------------------------------------------------------------------------
(* Vocabulary of the gold properties, stated over the store itself.        *)

\* A normalized base extract (data.parquet) exists for `d`.
BaseExtract(d) == d \in DOMAIN silver /\ silver[d].parquet

\* The rows of `symbol` in the base extract of `d`.
BaseRows(d, symbol) ==
    IF BaseExtract(d) THEN {x \in silver[d].rows : x.symbol = symbol} ELSE {}

\* The position-limit records for (d, symbol) in the extract of `d`.
PositionLimitRecords(d, symbol) ==
    IF d \in DOMAIN mwpl
    THEN {m \in mwpl[d] : m.symbol = symbol /\ m.trade_date = d}
    ELSE {}

\* The persisted gold records of the key; none when there is no artifact.
GoldArtifact(d, symbol) ==
    IF <<d, symbol>> \in DOMAIN gold THEN gold[<<d, symbol>>] ELSE {}

\* Every persisted GoldDayRecord of `symbol`.
GoldRecordsOf(symbol) ==
    UNION {gold[k] : k \in {x \in DOMAIN gold : x[2] = symbol}}

DayCall == ret.op = "build_futures_day"

\* C11: build_futures_day fails with MissingSilverPartition exactly when no
\* base extract exists for the date, whatever else exists for that date.
C11_MissingSilverPartition ==
    DayCall =>
        (ret.status = "MissingSilverPartition" <=> ~BaseExtract(ret.day))

\* The build fails for a date that has a position-limit extract but no base
\* extract.
C11_Witness ==
    /\ DayCall /\ ret.status = "MissingSilverPartition"
    /\ ~BaseExtract(ret.day)
    /\ ret.day \in DOMAIN mwpl
    /\ gold # <<>>

\* C12: when the base extract of the date exists and holds no row of the
\* instrument, build_futures_day returns an empty result without raising.
C12_EmptyWithoutRow ==
    (DayCall /\ BaseExtract(ret.day) /\ BaseRows(ret.day, ret.symbol) = {})
        => (ret.status = "ok" /\ ret.rows = {})

\* The extract of the date holds rows of another symbol only.
C12_Witness ==
    /\ DayCall /\ BaseExtract(ret.day)
    /\ BaseRows(ret.day, ret.symbol) = {}
    /\ silver[ret.day].rows # {}
    /\ ret.status = "ok" /\ ret.rows = {}

\* C13: every GoldDayRecord build_futures_day produces carries the
\* open-interest contract count and lot size of a silver row of the day, and
\* oi_shares = oi_contracts * lot_size_shares.
C13_OiShares ==
    (DayCall /\ ret.status = "ok") =>
        \A r \in ret.rows \cup GoldArtifact(ret.day, ret.symbol) :
            /\ r.oi_shares = r.oi_contracts * r.lot_size_shares
            /\ ret.rows # {} =>
                 \E x \in BaseRows(ret.day, ret.symbol) :
                    /\ x.expiry_date = r.expiry_date
                    /\ r.oi_contracts = x.open_interest_contracts
                    /\ r.lot_size_shares = x.lot_size_shares

\* Two contract months built in one call, each with a product that differs
\* from both of its factors.
C13_Witness ==
    /\ DayCall /\ ret.status = "ok"
    /\ Cardinality(ret.rows) = 2
    /\ \A r \in ret.rows :
          /\ r.oi_contracts > 1 /\ r.lot_size_shares > 1
          /\ r.oi_shares = r.oi_contracts * r.lot_size_shares

\* C14: the gold rows are the silver rows of the instrument left-joined with
\* the position-limit record for (date, instrument): they carry its
\* mwpl_shares and combined_oi_shares when it exists, and null in both
\* fields when the extract or the instrument's record in it is absent.
C14_LeftJoinPositionLimit ==
    (DayCall /\ ret.status = "ok") =>
        /\ {r.expiry_date : r \in ret.rows}
              = {x.expiry_date : x \in BaseRows(ret.day, ret.symbol)}
        /\ \A r \in ret.rows :
              IF PositionLimitRecords(ret.day, ret.symbol) = {}
              THEN r.mwpl_shares = {} /\ r.combined_oi_shares = {}
              ELSE \E m \in PositionLimitRecords(ret.day, ret.symbol) :
                      /\ r.mwpl_shares = {m.mwpl_shares}
                      /\ r.combined_oi_shares = {m.combined_oi_shares}

\* A position-limit extract exists for the date but holds no record for
\* (date, instrument): the gold rows are produced with both fields null.
C14_Witness ==
    /\ DayCall /\ ret.status = "ok" /\ ret.rows # {}
    /\ ret.day \in DOMAIN mwpl
    /\ mwpl[ret.day] # {}
    /\ PositionLimitRecords(ret.day, ret.symbol) = {}
    /\ \A r \in ret.rows :
          r.mwpl_shares = {} /\ r.combined_oi_shares = {} /\ r.oi_shares # 0

\* C15 (as claimed): after a successful build_futures_day the persisted gold
\* artifact of the key holds exactly the records the call returned.
C15_ArtifactIsResult ==
    (DayCall /\ ret.status = "ok") =>
        GoldArtifact(ret.day, ret.symbol) = ret.rows

\* A build_futures_summary call that returned a summary record.
SummaryBuilt ==
    ret.op = "build_futures_summary" /\ ret.status = "ok" /\ ret.rows # {}
TheSummary == CHOOSE r \in ret.rows : TRUE

\* The persisted GoldDayRecords of `symbol` dated within [start, end].
GoldWindow(symbol, start, end) ==
    {r \in GoldRecordsOf(symbol) :
        start <= r.trade_date /\ r.trade_date <= end}

\* The start of the window the returned summary is based on, and the
\* records of that window.
UsedStart ==
    ScopeStart(TheSummary.summary_scope, TheSummary.primary_start_date,
               TheSummary.overlap_start_date)
UsedRecords == GoldWindow(ret.symbol, UsedStart, TheSummary.end_date)

\* The records of the window with both a position limit and a lot size.
UsedWithBoth == {r \in UsedRecords : r.mwpl_shares # {}}

\* C16: max_oi_contracts is the maximum oi_contracts over the GoldDayRecords
\* of the instrument dated within [scope_start, end], both ends included.
C16_MaxOiOverWindow ==
    SummaryBuilt =>
        /\ \E r \in UsedRecords :
              r.oi_contracts = TheSummary.max_oi_contracts
        /\ \A r \in UsedRecords :
              r.oi_contracts <= TheSummary.max_oi_contracts

\* A record dated scope_start carries the maximum while an earlier record of
\* the instrument, outside the window, has a larger open interest.
C16_Witness ==
    /\ SummaryBuilt
    /\ \E r \in UsedRecords :
          /\ r.trade_date = UsedStart
          /\ r.oi_contracts = TheSummary.max_oi_contracts
    /\ \E q \in GoldRecordsOf(ret.symbol) :
          /\ q.trade_date < UsedStart
          /\ q.oi_contracts > TheSummary.max_oi_contracts

\* C17: mwpl_used, lot_used and as_of_trade_date come from a record of the
\* latest trade_date among the in-window records with both mwpl_shares and
\* lot_size_shares; when there is none, max_permitted_contracts,
\* threshold_90pct and as_of_trade_date are absent.
C17_LatestWithBoth ==
    SummaryBuilt =>
        IF UsedWithBoth = {}
        THEN /\ TheSummary.max_permitted_contracts = {}
             /\ TheSummary.threshold_90pct = {}
             /\ TheSummary.as_of_trade_date = {}
             /\ TheSummary.mwpl_shares_used = {}
             /\ TheSummary.lot_size_used = {}
        ELSE \E r \in UsedWithBoth :
                /\ \A q \in UsedWithBoth : q.trade_date <= r.trade_date
                /\ TheSummary.mwpl_shares_used = r.mwpl_shares
                /\ TheSummary.lot_size_used = {r.lot_size_shares}
                /\ TheSummary.as_of_trade_date = {r.trade_date}

\* Records of two dates carry a position limit and a later in-window record
\* carries none: the values used are those of the later of the two.
C17_Witness ==
    /\ SummaryBuilt
    /\ \E a \in UsedWithBoth, b \in UsedWithBoth, q \in UsedRecords :
          /\ a.trade_date < b.trade_date
          /\ b.trade_date < q.trade_date
          /\ q.mwpl_shares = {}
          /\ TheSummary.as_of_trade_date = {b.trade_date}
          /\ TheSummary.mwpl_shares_used = b.mwpl_shares

C19_Threshold90 ==
    SummaryBuilt =>
        IF TheSummary.max_permitted_contracts = {}
        THEN TheSummary.threshold_90pct = {}
        ELSE \A p \in TheSummary.max_permitted_contracts :
             \E t \in (0 - 100)..100 :
                /\ 10 * t <= 9 * p /\ 9 * p < 10 * (t + 1)
                /\ TheSummary.threshold_90pct = {t}

\* A ceiling whose nine tenths is not an integer.
C19_Witness ==
    /\ SummaryBuilt
    /\ \E p \in TheSummary.max_permitted_contracts :
          /\ p > 0 /\ (9 * p) % 10 >= 5
          /\ TheSummary.threshold_90pct = {(9 * p) \div 10}

\* C20 (as claimed): the summary is based on [overlap_start, end] only when
\* the configured policy is overlap ("W3"), on [primary_start, end] when it
\* is primary or no policy value is configured, and the scope it records is
\* the one of the window used.
C20_ScopePolicy ==
    (ret.op = "build_futures_summary" /\ ret.status = "ok") =>
        \A w \in {windows_for(ret.symbol, ret.day)} :
        \A start \in {IF ret.cfg = "W3" THEN w.w3 ELSE w.w1} :
            /\ ret.rows = {} <=> GoldWindow(ret.symbol, start, w.e0) = {}
            /\ \A r \in ret.rows :
                  /\ r.summary_scope = (IF ret.cfg = "W3" THEN "W3" ELSE "W1")
                  /\ \E g \in GoldWindow(ret.symbol, start, w.e0) :
                        g.oi_contracts = r.max_oi_contracts
                  /\ \A g \in GoldWindow(ret.symbol, start, w.e0) :
                        g.oi_contracts <= r.max_oi_contracts

\* A build_futures_summary call whose windows were derived, the start of the
\* scope the call selects, and the persisted records of that window.
SummaryCall == ret.op = "build_futures_summary"
CallWindows == windows_for(ret.symbol, ret.day)
CallScopeStart ==
    ScopeStart(SummaryScope(ret.cfg), CallWindows.w1, CallWindows.w3)
CallRecords == GoldWindow(ret.symbol, CallScopeStart, CallWindows.e0)

\* C21: when no GoldDayRecord of the instrument is dated within
\* [scope_start, end], build_futures_summary returns an empty summary and
\* raises nothing.
C21_EmptyWindowEmptySummary ==
    (SummaryCall /\ CallWindows.status = "ok" /\ CallRecords = {}) =>
        ret.status = "ok" /\ ret.rows = {}

\* The instrument has gold records, all outside the window of the call.
C21_Witness ==
    /\ SummaryCall /\ CallWindows.status = "ok" /\ CallRecords = {}
    /\ GoldRecordsOf(ret.symbol) # {}
    /\ ret.status = "ok" /\ ret.rows = {}

\* The persisted summary of the key; none when there is no artifact.
SummaryArtifact(symbol, expiry) ==
    IF <<symbol, expiry>> \in DOMAIN summary
    THEN summary[<<symbol, expiry>>] ELSE {}

\* C22 (as claimed): after a successful build_futures_summary the persisted
\* summary of the (instrument, expiry) key is the result the call returned,
\* an empty result included.
C22_SummaryIsResult ==
    (SummaryCall /\ ret.status = "ok") =>
        SummaryArtifact(ret.symbol, ret.day) = ret.rows

\* The call that ended in this state is made again in the next step.
SameCallAgain ==
    /\ ret.op \in {"build_futures_day", "build_futures_summary"}
    /\ ret'.op = ret.op /\ ret'.symbol = ret.symbol /\ ret'.day = ret.day
    /\ ret'.cfg = ret.cfg

\* C23: build_futures_day or build_futures_summary called a second time on
\* the store its first call left returns the same result and leaves the
\* store as it was.
C23_Idempotent ==
    [][SameCallAgain =>
          /\ ret' = ret /\ log' = log
          /\ gold' = gold /\ summary' = summary
          /\ silver' = silver /\ mwpl' = mwpl /\ raw' = raw
          /\ run' = run]_vars

\* A store on which both builders have persisted a non-empty result, left by
\* a summary build whose repetition is the next step.
C23_Witness ==
    /\ SummaryBuilt
    /\ SummaryArtifact(ret.symbol, ret.day) = ret.rows
    /\ GoldArtifact(TheSummary.primary_start_date, ret.symbol) # {}
    /\ ENABLED (build_futures_summary(ret.symbol, ret.day, ret.cfg)
                /\ summary' = summary /\ ret' = ret)

----------------------------------------------------------------------------
(* Builds over a store whose partitions are ingested and ingested again:   *)
(* the builders fail and succeed beside artifacts of earlier builds.       *)

\* Dates ingested, and the frames written for them: the day's rows, and for
\* T2 also the frame left when the ingest is filtered to the other symbol.
FrameDates == {T2, T3}
FrameFrames(d) ==
    IF d = T2 THEN {{FoRow("ABC", E3, 9, 3), FoRow("ABC", E4, 4, 3),
                     FoRow("XYZ", E3, 2, 5)},
                    {FoRow("XYZ", E3, 2, 5)}}
    ELSE {{FoRow("ABC", E4, 7, 3), FoRow("XYZ", E4, 5, 5)}}

\* Dates and expiries the builders are called for; nothing is ingested for
\* E4 and no row carries E5.
FrameBuildDates == {T2, T3, E4}
FrameExpiries == {E3, E4, E5}

FrameNext ==
    \/ \E d \in FrameDates : \E f \in FrameFrames(d) : write_partition(d, f)
    \/ \E s \in Symbols, d \in FrameBuildDates : build_futures_day(s, d)
    \/ \E s \in Symbols, e \in FrameExpiries :
          build_futures_summary(s, e, "W1")

FrameSpec == Init /\ [][FrameNext]_vars

\* The artifacts other than that of `key`.
Others(store, key) == [k \in DOMAIN store \ {key} |-> store[k]]

\* The step is a call of a builder; its key is in the outcome.
BuilderStep == ret'.op \in {"build_futures_day", "build_futures_summary"}

\* C24: a call of build_futures_day or build_futures_summary, failed or not,
\* leaves every silver partition unchanged and every gold artifact of
\* another key unchanged; a failed call leaves the artifact of its own key
\* unchanged as well.
C24_FrameOfBuilds ==
    [][BuilderStep =>
          /\ silver' = silver /\ mwpl' = mwpl /\ raw' = raw
          /\ ret'.op = "build_futures_day" =>
                /\ summary' = summary
                /\ Others(gold', <<ret'.day, ret'.symbol>>)
                      = Others(gold, <<ret'.day, ret'.symbol>>)
          /\ ret'.op = "build_futures_summary" =>
                /\ gold' = gold
                /\ Others(summary', <<ret'.symbol, ret'.day>>)
                      = Others(summary, <<ret'.symbol, ret'.day>>)
          /\ ret'.status # "ok" => gold' = gold /\ summary' = summary]_vars

\* A summary build failed for a key whose artifact exists, beside artifacts
\* of other keys.
C24_Witness ==
    /\ SummaryCall /\ ret.status = "ExpiryNotObserved"
    /\ SummaryArtifact(ret.symbol, ret.day) # {}
    /\ \E k \in DOMAIN summary : k # <<ret.symbol, ret.day>>
    /\ \E k \in DOMAIN gold : k[2] = ret.symbol

\* C26 (as claimed): a row once written to a silver partition is still in
\* that partition, unchanged, after every later operation.
C26_SilverImmutable ==
    [][/\ \A d \in DOMAIN silver : silver[d].rows \subseteq silver'[d].rows
       /\ \A d \in DOMAIN mwpl : mwpl[d] \subseteq mwpl'[d]]_vars

----------------------------------------------------------------------------
(* cli.run: the backfill over a date range.  For each day of the range it  *)
(* ingests the day's UDiFF file, builds the gold day of every symbol of    *)
(* the run, and rebuilds the summary of every expiry the gold day lists.   *)

\* runtime.symbols, and the summary scope of the loaded configuration.
RunSymbol == "ABC"
RunConfig == "W1"

\* The dates the run is asked for, the dates the exchange answers 404 for,
\* and the FUTSTK rows of the file it serves for the other dates.
RunDates == {T0, T1, T2, T2 + 1, T2 + 2, T3}
NotFound == {T2 + 2}
SourceFrame(d) ==
    IF d = T0 THEN {FoRow("ABC", E1, 3, 3)}
    ELSE IF d = T1 THEN {FoRow("ABC", E4, 20, 3)}
    ELSE IF d = T2 THEN {FoRow("ABC", E3, 9, 3)}
    ELSE IF d = T2 + 1 THEN {FoRow("ABC", E4, 12, 3)}
    ELSE {FoRow("ABC", E4, 7, 3)}

\* The ranges --from/--to of the runs, and the expiries of the rows.
RunRanges == {<<T0, T0>>, <<T1, T1>>, <<T3, T3>>, <<T2, T2>>,
              <<T2 + 1, T2 + 1>>, <<T2 + 2, T2 + 2>>,
              <<T2, T2 + 1>>, <<T2, T2 + 2>>}
RunExpiries == {E1, E3, E4}

RunInit ==
    /\ run = NoRun
    /\ net = NoNet
    /\ raw = {}
    /\ silver = [d \in RunDates |-> NoPartition]
    /\ mwpl = <<>>
    /\ gold = <<>>
    /\ summary = <<>>
    /\ ret = NoRet
    /\ log = <<>>

\* What build_futures_summary(symbol, expiry) returns or raises on the
\* store as it is: the outcomes without their effect.
SummaryResults(symbol, expiry) ==
    {[status |-> r.status, rows |-> r.rows] :
        r \in futures_summary(symbol, expiry, RunConfig)}

\* run: the command starts on a store no other command is writing; day is
\* set to the start of the range.
run_start(from_date, to_date) ==
    /\ run.pc \in {"idle", "done", "failed"}
    /\ run' = [NoRun EXCEPT !.pc = "ingest", !.day = from_date,
                            !.last = to_date]
    /\ ret' = [NoRet EXCEPT !.op = "run"]
    /\ log' = <<>>
    /\ UNCHANGED <<raw, silver, mwpl, gold, summary, net>>

MissingWarning(d) == [kind |-> "udiff_missing", offset |-> 0, anchor |-> d]

\* The raw archive of the date is cached, or the exchange serves it.
Fetched(d) == d \in raw \/ d \notin NotFound

\* _ingest_udiff_dates(cfg, root, [day], symbol=None, prefetch_months=0):
\* a cached archive is not downloaded again; a 404 is logged and the date
\* skipped; otherwise the archive is parsed and its frame written as the
\* silver partition of the date.  Before it, the outcome of every summary
\* build on the store as it is is noted, and whether the date is new.
run_ingest ==
    /\ run.pc = "ingest"
    /\ IF Fetched(run.day)
       THEN /\ raw' = raw \cup {run.day}
            /\ silver' = [d \in DOMAIN silver \cup {run.day} |->
                             IF d = run.day
                             THEN [dir |-> TRUE, parquet |-> TRUE,
                                   rows |-> SourceFrame(run.day)]
                             ELSE silver[d]]
            /\ log' = <<>>
       ELSE /\ UNCHANGED <<raw, silver>>
            /\ log' = <<MissingWarning(run.day)>>
    /\ run' = [run EXCEPT
                  !.pc = "build_day",
                  !.fresh = Fetched(run.day) /\ ~is_trading_day(run.day),
                  !.before = [e \in RunExpiries |->
                                 SummaryResults(RunSymbol, e)]]
    /\ ret' = [NoRet EXCEPT !.op = "ingest_udiff_dates", !.day = run.day]
    /\ UNCHANGED <<mwpl, gold, summary, net>>

\* day += timedelta(days=1) and the test of the loop; after the last day
\* the command ends.
NextDay(r) ==
    IF r.day < r.last
    THEN [r EXCEPT !.pc = "ingest", !.day = @ + 1, !.todo = {},
                   !.fresh = FALSE, !.before = <<>>]
    ELSE [r EXCEPT !.pc = "done", !.todo = {},
                   !.fresh = FALSE, !.before = <<>>]

\* An exception of a builder is not caught: the command ends with it.
RunFailed(r, why) == [r EXCEPT !.pc = "failed", !.error = why, !.todo = {}]

\* The summaries to rebuild: df["expiry_date"].unique() of the gold
\* artifact of the day, if it exists.
RunTodo(r, artifact) ==
    IF artifact = {} THEN NextDay(r)
    ELSE [r EXCEPT !.pc = "summaries",
                   !.todo = {x.expiry_date : x \in artifact}]

\* for sym in symbol_list: build_futures_day(sym, day)
run_build_day ==
    /\ run.pc = "build_day"
    /\ DayEffect(RunSymbol, run.day, futures_day(RunSymbol, run.day))
    /\ run' = IF ret'.status # "ok" THEN RunFailed(run, ret'.status)
              ELSE RunTodo(run,
                      IF <<run.day, RunSymbol>> \in DOMAIN gold'
                      THEN gold'[<<run.day, RunSymbol>>] ELSE {})
    /\ UNCHANGED <<raw, silver, mwpl, summary, net>>

\* The loop over the expiries of the gold day after one more summary.
RunAfterSummary(r, expiry, status) ==
    IF status # "ok" THEN RunFailed(r, status)
    ELSE IF r.todo \ {expiry} = {} THEN NextDay(r)
    ELSE [r EXCEPT !.todo = @ \ {expiry}]

\* for expiry in df["expiry_date"].unique():
\*     build_futures_summary(sym, expiry)
\* in the order of the rows of the artifact, which the model leaves open.
run_build_summary(expiry) ==
    /\ run.pc = "summaries"
    /\ expiry \in run.todo
    /\ \E r \in futures_summary(RunSymbol, expiry, RunConfig) :
          /\ SummaryEffect(RunSymbol, expiry, RunConfig, r)
          /\ run' = RunAfterSummary(run, expiry, r.status)
    /\ UNCHANGED <<raw, silver, mwpl, gold, net>>

RunNext ==
    \/ \E rg \in RunRanges : run_start(rg[1], rg[2])
    \/ run_ingest
    \/ run_build_day
    \/ \E e \in RunExpiries : run_build_summary(e)

RunSpec == RunInit /\ [][RunNext]_vars

\* C28 (as claimed): a run does not end with an error at a day whose source
\* file is not found and not cached; the day is skipped.
C28_MissingSourceSkipped ==
    run.pc = "failed" => ~(run.day \in NotFound /\ run.day \notin raw)

ReturnedRows(outcomes) == {x.rows : x \in {y \in outcomes : y.status = "ok"}}

\* C25 (as claimed): after a new date is ingested and its gold day built,
\* every expiry whose summary build returned before the ingestion and now
\* returns other rows is among impacted_expiries_for(instrument, date),
\* whenever that call runs to its end.
C25_ImpactedComplete ==
    (/\ run.pc = "summaries" /\ run.fresh
     /\ impacted_expiries_for(RunSymbol, run.day).status = "ok") =>
        \A e \in RunExpiries :
            (/\ ReturnedRows(run.before[e]) # {}
             /\ ReturnedRows(SummaryResults(RunSymbol, e)) # {}
             /\ ReturnedRows(SummaryResults(RunSymbol, e))
                    # ReturnedRows(run.before[e]))
            => \E i \in 1..Len(impacted_expiries_for(RunSymbol,
                                                     run.day).dates) :
                  impacted_expiries_for(RunSymbol, run.day).dates[i] = e

----------------------------------------------------------------------------
(* util.retry: an operation called again after it fails.                   *)

\* The largest number of attempts asked for.
MaxAttempts == 3

\* What one invocation of the operation does: it returns a value or raises
\* an error derived from Exception.
Returns(v) == [ok |-> TRUE, value |-> v]
Raises(e) == [ok |-> FALSE, value |-> e]
OpOutcomes == {Returns("r1"), Returns("r2"),
               Raises("ValueError"), Raises("OSError")}

\* script[i] is what the i-th invocation of the operation does.
Scripts(outcomes) == [1..MaxAttempts -> outcomes]
Backoffs == {0, 2}
AttemptCounts == (0 - 1)..MaxAttempts

\* for attempt in range(attempts): the loop from the given attempt on,
\* sleeps being the delays slept so far.
RECURSIVE RetryLoop(_, _, _, _, _)
RetryLoop(script, attempts, backoff_seconds, attempt, sleeps) ==
    IF script[attempt + 1].ok
    THEN [status |-> "ok", value |-> script[attempt + 1].value,
          calls |-> attempt + 1, sleeps |-> sleeps]
    ELSE IF attempt = attempts - 1
         THEN [status |-> "raised", value |-> script[attempt + 1].value,
               calls |-> attempt + 1, sleeps |-> sleeps]
         ELSE RetryLoop(script, attempts, backoff_seconds, attempt + 1,
                        Append(sleeps, backoff_seconds * (2 ^ attempt)))

\* retry(operation, attempts=..., backoff_seconds=...) calling the
\* operation only once, whatever attempts is.
retry_once(script, attempts, backoff_seconds) ==
    IF attempts < 1
    THEN [status |-> "raised", value |-> "ValueError",
          calls |-> 0, sleeps |-> <<>>]
    ELSE RetryLoop(script, 1, backoff_seconds, 0, <<>>)

\* retry(operation, attempts=..., backoff_seconds=...): what it returns or
\* raises, how often it invoked the operation and the delays it slept.
retry(script, attempts, backoff_seconds) ==
    IF attempts < 1
    THEN [status |-> "raised", value |-> "ValueError",
          calls |-> 0, sleeps |-> <<>>]
    ELSE RetryLoop(script, attempts, backoff_seconds, 0, <<>>)

\* The record of a call of retry.
RetryCall(script, attempts, backoff_seconds, r) ==
    [NoNet EXCEPT !.op = "retry", !.script = script,
                  !.attempts = attempts, !.backoff = backoff_seconds,
                  !.calls = r.calls, !.sleeps = r.sleeps,
                  !.status = r.status, !.value = r.value]

RetryInit ==
    /\ raw = {}
    /\ silver = <<>>
    /\ mwpl = <<>>
    /\ gold = <<>>
    /\ summary = <<>>
    /\ ret = NoRet
    /\ log = <<>>
    /\ run = NoRun
    /\ net \in {[NoNet EXCEPT !.script = s, !.attempts = n, !.backoff = b] :
                   s \in Scripts(OpOutcomes), n \in AttemptCounts,
                   b \in Backoffs}

call_retry ==
    /\ net.op = "none"
    /\ net' = RetryCall(net.script, net.attempts, net.backoff,
                        retry(net.script, net.attempts, net.backoff))
    /\ UNCHANGED <<raw, silver, mwpl, gold, summary, ret, log, run>>

RetryNext == call_retry

RetrySpec == RetryInit /\ [][RetryNext]_vars

\* The invocations of a call that failed.
FailedCalls == {i \in 1..net.calls : ~net.script[i].ok}

\* C29: retry with attempts = n >= 1 invokes the operation at most n times,
\* returns the result of the first invocation that succeeds and invokes
\* nothing after it, sleeps once after each failed invocation except the
\* n-th, and raises the last error when all n invocations fail; with n < 1
\* it raises without invoking the operation.
C29_Retry ==
    net.op = "retry" =>
        /\ net.attempts < 1 =>
              net.calls = 0 /\ net.status = "raised" /\ net.sleeps = <<>>
        /\ net.attempts >= 1 =>
              /\ net.calls \in 1..net.attempts
              /\ \A i \in 1..(net.calls - 1) : ~net.script[i].ok
              /\ net.status = "ok" =>
                    /\ net.script[net.calls].ok
                    /\ net.value = net.script[net.calls].value
                    /\ Len(net.sleeps) = net.calls - 1
              /\ net.status # "ok" =>
                    /\ net.status = "raised"
                    /\ net.calls = net.attempts
                    /\ ~net.script[net.attempts].ok
                    /\ net.value = net.script[net.attempts].value
              /\ Len(net.sleeps)
                    = Cardinality(FailedCalls \ {net.attempts})

\* Two failures and then a success with three attempts: three invocations,
\* two sleeps.
C29_Witness ==
    /\ net.op = "retry" /\ net.attempts = 3 /\ net.status = "ok"
    /\ net.calls = 3 /\ Len(net.sleeps) = 2

----------------------------------------------------------------------------
(* io.fetcher: a source file downloaded to dest, with its hash manifest.   *)

\* What a response body can hold, and its SHA-256 in lowercase hexadecimal.
Bodies == {"a", "b"}
sha256sum(content) == IF content = "a" THEN "da" ELSE "db"

\* str.strip() and str.lower() on the texts a manifest or an expected hash
\* holds here.
Strip(text) == IF text = " DA " THEN "DA" ELSE text
Lower(text) ==
    CASE text = "DA" -> "da"
      [] text = " DA " -> " da "
      [] OTHER -> text

ManifestTexts == {"da", " DA ", "db", ""}
ExpectedHashes == {Null, Some(""), Some("da"), Some("DA"), Some("db")}
RateLimits == {Null, Some(2)}

\* if expected_hash: neither None nor the empty string.
Truthy(text) == text # Null /\ text # Some("")

\* file_needs_refresh(dest, expected_hash=...), on the file and the
\* manifest as they are.
file_needs_refresh(dest, manifest, expected_hash) ==
    IF dest = Null
    THEN TRUE
    ELSE IF Truthy(expected_hash)
         THEN manifest = Null
              \/ Lower(Strip(Val(manifest))) # Lower(Val(expected_hash))
         ELSE manifest = Null

\* What requests.get answers to one download.
NotFound404 == [kind |-> "404", content |-> ""]
HttpError == [kind |-> "error", content |-> ""]
Body(content) == [kind |-> "body", content |-> content]
Responses == {NotFound404, HttpError} \cup {Body(c) : c \in Bodies}

\* _download: what one invocation returns or raises for a response.
DownloadOutcome(response, expected_hash) ==
    CASE response.kind = "404" -> Raises("FileNotFoundError")
      [] response.kind = "error" -> Raises("HTTPError")
      [] OTHER ->
            IF /\ Truthy(expected_hash)
               /\ sha256sum(response.content) # Val(expected_hash)
            THEN Raises("ValueError")
            ELSE Returns("dest")

\* The invocations of _download, among the first calls, that wrote dest.
Written(responses, calls) ==
    {i \in 1..calls : responses[i].kind = "body"}

\* tmp_path.replace(dest) and manifest_path.write_text(digest): the file
\* and the manifest after the first calls invocations of _download.
DestAfter(dest, responses, calls) ==
    IF Written(responses, calls) = {}
    THEN dest
    ELSE Some(responses[CHOOSE i \in Written(responses, calls) :
                 \A j \in Written(responses, calls) : j <= i].content)

ManifestAfter(manifest, responses, calls) ==
    IF Written(responses, calls) = {}
    THEN manifest
    ELSE Some(sha256sum(Val(DestAfter(Null, responses, calls))))

\* attempt_count = max(1, retries); backoff = rate_limit_seconds, or 1.0
\* when it is None.
AttemptCount(retries) == IF retries < 1 THEN 1 ELSE retries
BackoffOf(rate_limit_seconds) ==
    IF rate_limit_seconds # Null THEN Val(rate_limit_seconds) ELSE 1

\* if expected_hash: expected_hash = expected_hash.lower()
Lowered(expected_hash) ==
    IF Truthy(expected_hash)
    THEN Some(Lower(Val(expected_hash)))
    ELSE expected_hash

\* The record of a call of fetch_file that found dest up to date.
FetchSkipped(n, expected_hash) ==
    [NoNet EXCEPT !.op = "fetch_file",
                  !.dest = n.dest, !.manifest = n.manifest,
                  !.had_dest = n.dest, !.had_manifest = n.manifest,
                  !.expected = expected_hash, !.value = "dest"]

\* The record of a call of fetch_file that went through retry(_download).
FetchDownloaded(n, expected_hash, rate_limit_seconds, responses, r) ==
    [NoNet EXCEPT !.op = "fetch_file",
                  !.dest = DestAfter(n.dest, responses, r.calls),
                  !.manifest = ManifestAfter(n.manifest, responses, r.calls),
                  !.had_dest = n.dest, !.had_manifest = n.manifest,
                  !.expected = expected_hash,
                  !.calls = r.calls, !.sleeps = r.sleeps,
                  !.pauses = IF rate_limit_seconds \in {Null, Some(0)}
                             THEN 0 ELSE r.calls,
                  !.status = r.status, !.value = r.value]

\* The download script retry receives: _download on each response.
Downloads(responses, expected_hash) ==
    [i \in DOMAIN responses |->
        DownloadOutcome(responses[i], Lowered(expected_hash))]

\* fetch_file that downloads whether or not dest is up to date.
fetch_always(expected_hash, retries, rate_limit_seconds, responses) ==
    /\ net' = FetchDownloaded(net, expected_hash, rate_limit_seconds,
                  responses,
                  retry(Downloads(responses, expected_hash),
                        AttemptCount(retries),
                        BackoffOf(rate_limit_seconds)))
    /\ UNCHANGED <<raw, silver, mwpl, gold, summary, ret, log, run>>

\* fetch_file(url, dest, retries=..., rate_limit_seconds=...,
\* expected_hash=...), the responses being what the source answers to the
\* successive requests.
fetch_file(expected_hash, retries, rate_limit_seconds, responses) ==
    /\ net' =
          IF ~file_needs_refresh(net.dest, net.manifest,
                                 Lowered(expected_hash))
          THEN FetchSkipped(net, expected_hash)
          ELSE FetchDownloaded(net, expected_hash, rate_limit_seconds,
                   responses,
                   retry(Downloads(responses, expected_hash),
                         AttemptCount(retries),
                         BackoffOf(rate_limit_seconds)))
    /\ UNCHANGED <<raw, silver, mwpl, gold, summary, ret, log, run>>

\* The file and the manifest before the first call: none, or whatever an
\* earlier program left.
FetchInit ==
    /\ raw = {}
    /\ silver = <<>>
    /\ mwpl = <<>>
    /\ gold = <<>>
    /\ summary = <<>>
    /\ ret = NoRet
    /\ log = <<>>
    /\ run = NoRun
    /\ net \in {[NoNet EXCEPT !.dest = d, !.manifest = m] :
                   d \in {Null} \cup {Some(c) : c \in Bodies},
                   m \in {Null} \cup {Some(t) : t \in ManifestTexts}}

FetchNext ==
    \E expected_hash \in ExpectedHashes, retries \in 0..MaxAttempts,
       rate_limit_seconds \in RateLimits :
        \E responses \in [1..AttemptCount(retries) -> Responses] :
            fetch_file(expected_hash, retries, rate_limit_seconds,
                       responses)

FetchSpec == FetchInit /\ [][FetchNext]_vars

\* The hash a text stands for: hexadecimal digits whatever their case, the
\* surrounding blanks left out.
HashOf(text) == Lower(Strip(text))

\* The call was given an expected hash: not None and not empty.
HashGiven == net.expected # Null /\ net.expected # Some("")

\* dest existed and was up to date when fetch_file was called: its manifest
\* held the expected hash when one was given, a manifest existed when none
\* was given.
WasUpToDate ==
    /\ net.had_dest # Null
    /\ net.had_manifest # Null
    /\ HashGiven =>
          HashOf(Val(net.had_manifest)) = HashOf(Val(net.expected))

\* C30: fetch_file issues no request and returns dest with the file and
\* the manifest unchanged exactly when dest existed and was up to date; in
\* every other case it downloads, and a download that succeeds leaves dest
\* and a manifest holding the SHA-256 of the content of dest.
C30_Fetch ==
    net.op = "fetch_file" =>
        /\ net.calls = 0 <=> WasUpToDate
        /\ net.calls = 0 =>
              /\ net.status = "ok" /\ net.value = "dest"
              /\ net.dest = net.had_dest
              /\ net.manifest = net.had_manifest
        /\ (net.calls > 0 /\ net.status = "ok") =>
              /\ net.dest # Null
              /\ net.manifest = Some(sha256sum(Val(net.dest)))

\* dest existed with the manifest of another hash than the expected one:
\* the file was downloaded again and now holds the expected content.
C30_Witness ==
    /\ net.op = "fetch_file"
    /\ net.had_dest = Some("b") /\ net.had_manifest = Some("db")
    /\ net.expected = Some("DA")
    /\ net.calls = 2 /\ net.status = "ok"
    /\ net.dest = Some("a") /\ net.manifest = Some("da")

====
